---------------------------- MODULE Spec2Model ----------------------------
(***************************************************************************)
(* Variable-frequency counter: the Python and R lexical scanners           *)
(* (py_variable_counter.py, r_variable_counter.py), the per-language       *)
(* directory pass count_variables, and the cross-language combiner         *)
(* (combiner.py).                                                          *)
(*                                                                         *)
(* A text buffer is a sequence of one-character strings, positions from 1. *)
(* A dict is a sequence of [var, count] records in insertion order (the    *)
(* order Python's dict iterates in).                                       *)
(***************************************************************************)
EXTENDS Integers, Sequences, FiniteSets, TLC

\* ------------------------------------------------------------------------
\* Character classes of the regular expressions
\* ------------------------------------------------------------------------

Lower == {"a","b","c","d","e","f","g","h","i","j","k","l","m",
          "n","o","p","q","r","s","t","u","v","w","x","y","z"}

Upper == {"A","B","C","D","E","F","G","H","I","J","K","L","M",
          "N","O","P","Q","R","S","T","U","V","W","X","Y","Z"}

Digit == {"0","1","2","3","4","5","6","7","8","9"}

\* \s of a str pattern, restricted to the ASCII whitespace TLA+ can write
WHITESPACE == {" ", "\t", "\n", "\r", "\f"}

\* [a-zA-Z_]
PyIdStart == Lower \cup Upper \cup {"_"}

\* [a-zA-Z0-9_]
PyIdChar == PyIdStart \cup Digit

\* [a-zA-Z]
RIdStart == Lower \cup Upper

\* [a-zA-Z0-9_\.]
RIdChar == RIdStart \cup Digit \cup {"_", "."}

\* [+\-*/%@&|^]
SingleCharOps == {"+", "-", "*", "/", "%", "@", "&", "|", "^"}

\* ------------------------------------------------------------------------
\* Matching primitives
\* ------------------------------------------------------------------------

RECURSIVE SkipWhile(_, _, _)
\* Greedy X* from position i: the first position not consumed.
SkipWhile(s, i, cls) ==
    IF i <= Len(s) /\ s[i] \in cls THEN SkipWhile(s, i + 1, cls) ELSE i

\* A literal at position i.
LitAt(s, i, lit) ==
    /\ i >= 1
    /\ i + Len(lit) - 1 <= Len(s)
    /\ SubSeq(s, i, i + Len(lit) - 1) = lit

\* IDENTIFIER (greedy) at position i: the position after it, 0 when there is
\* none.  Every pattern below except FOR_LOOP continues after an identifier
\* with whitespace or punctuation, so a shorter identifier (whose next
\* character is an identifier character) can never let the rest match and
\* the greedy end is the only one the regex engine can succeed with.
IdentEnd(s, i, startCls, restCls) ==
    IF i >= 1 /\ i <= Len(s) /\ s[i] \in startCls
    THEN SkipWhile(s, i + 1, restCls)
    ELSE 0

PyIdentEnd(s, i) == IdentEnd(s, i, PyIdStart, PyIdChar)

RIdentEnd(s, i) == IdentEnd(s, i, RIdStart, RIdChar)

\* A match object: start, end (the position after the match), and the group
\* the caller reads (varname, group(1) or content): where it starts and its
\* text.
Match(st, en, gs, txt) == [start |-> st, end |-> en, gstart |-> gs, group |-> txt]

NoMatch == [start |-> 0, end |-> 0, gstart |-> 0, group |-> <<>>]

\* ------------------------------------------------------------------------
\* get_python_patterns
\* ------------------------------------------------------------------------

\* Mutant of PY_EQUALS_ASSIGN: the negative lookahead (?!=) left out.
EqualsWithoutLookahead(s, i) ==
    LET e == PyIdentEnd(s, i)
        w == SkipWhile(s, e, WHITESPACE)
    IN  IF e # 0 /\ LitAt(s, w, <<"=">>)
        THEN Match(i, w + 1, i, SubSeq(s, i, e - 1))
        ELSE NoMatch

\* IDENT \s* = (?!=)
PY_EQUALS_ASSIGN(s, i) ==
    LET e == PyIdentEnd(s, i)
        w == SkipWhile(s, e, WHITESPACE)
    IN  IF e # 0 /\ LitAt(s, w, <<"=">>) /\ ~LitAt(s, w + 1, <<"=">>)
        THEN Match(i, w + 1, i, SubSeq(s, i, e - 1))
        ELSE NoMatch

\* IDENT \s* :=
PY_WALRUS_ASSIGN(s, i) ==
    LET e == PyIdentEnd(s, i)
        w == SkipWhile(s, e, WHITESPACE)
    IN  IF e # 0 /\ LitAt(s, w, <<":", "=">>)
        THEN Match(i, w + 2, i, SubSeq(s, i, e - 1))
        ELSE NoMatch

RECURSIVE MultiTail(_, _)
\* (?: \s* , \s* IDENT )* greedy, from the position p after an identifier:
\* the position after the last repetition.
MultiTail(s, p) ==
    LET c == SkipWhile(s, p, WHITESPACE)
        e == PyIdentEnd(s, SkipWhile(s, c + 1, WHITESPACE))
    IN  IF LitAt(s, c, <<",">>) /\ e # 0 THEN MultiTail(s, e) ELSE p

\* ( IDENT (?: \s* , \s* IDENT )+ ) \s* =      group(1) is the variable list
MULTI_ASSIGN(s, i) ==
    LET e == PyIdentEnd(s, i)
        g == MultiTail(s, e)
        w == SkipWhile(s, g, WHITESPACE)
    IN  IF e # 0 /\ g > e /\ LitAt(s, w, <<"=">>)
        THEN Match(i, w + 1, i, SubSeq(s, i, g - 1))
        ELSE NoMatch

\* Mutant of OperatorEnd: the operator character made optional,
\* [+\-*/%@&|^]?= , so that a plain "=" is an augmented operator too.
OperatorEndOptional(s, w) ==
    IF LitAt(s, w, <<"=">>)
    THEN w + 1
    ELSE IF w >= 1 /\ w <= Len(s) /\ s[w] \in SingleCharOps /\ LitAt(s, w + 1, <<"=">>)
    THEN w + 2
    ELSE IF \/ LitAt(s, w, <<"/", "/", "=">>)
            \/ LitAt(s, w, <<">", ">", "=">>)
            \/ LitAt(s, w, <<"<", "<", "=">>)
            \/ LitAt(s, w, <<"*", "*", "=">>)
         THEN w + 3
         ELSE 0

\* (?P<operator> [+\-*/%@&|^]= | //= | >>= | <<= | \*\*= ) at position w:
\* the position after it, 0 when no alternative matches.
OperatorEnd(s, w) ==
    IF w >= 1 /\ w <= Len(s) /\ s[w] \in SingleCharOps /\ LitAt(s, w + 1, <<"=">>)
    THEN w + 2
    ELSE IF \/ LitAt(s, w, <<"/", "/", "=">>)
            \/ LitAt(s, w, <<">", ">", "=">>)
            \/ LitAt(s, w, <<"<", "<", "=">>)
            \/ LitAt(s, w, <<"*", "*", "=">>)
         THEN w + 3
         ELSE 0

\* IDENT \s* (?P<operator> ...)
AUGMENTED_ASSIGN(s, i) ==
    LET e  == PyIdentEnd(s, i)
        w  == SkipWhile(s, e, WHITESPACE)
        en == OperatorEnd(s, w)
    IN  IF e # 0 /\ en # 0
        THEN Match(i, en, i, SubSeq(s, i, e - 1))
        ELSE NoMatch

RECURSIVE ForLoopIdent(_, _, _, _)
\* IDENT \s* in  with the identifier s[v..e-1]: the regex engine gives back
\* identifier characters one at a time until "\s* in" matches ("for xin"
\* binds x).
ForLoopIdent(s, i, v, e) ==
    IF e <= v
    THEN NoMatch
    ELSE LET w == SkipWhile(s, e, WHITESPACE)
         IN  IF LitAt(s, w, <<"i", "n">>)
             THEN Match(i, w + 2, v, SubSeq(s, v, e - 1))
             ELSE ForLoopIdent(s, i, v, e - 1)

\* for \s* IDENT \s* in
FOR_LOOP(s, i) ==
    LET v == SkipWhile(s, i + 3, WHITESPACE)
        e == PyIdentEnd(s, v)
    IN  IF LitAt(s, i, <<"f", "o", "r">>) /\ e # 0
        THEN ForLoopIdent(s, i, v, e)
        ELSE NoMatch

\* IDENT  (used on the variable list of a multi-assignment)
VAR_EXTRACTOR(s, i) ==
    LET e == PyIdentEnd(s, i)
    IN  IF e # 0 THEN Match(i, e, i, SubSeq(s, i, e - 1)) ELSE NoMatch

\* ------------------------------------------------------------------------
\* get_r_patterns
\* ------------------------------------------------------------------------

\* R_IDENT \s* <-
R_ASSIGN(s, i) ==
    LET e == RIdentEnd(s, i)
        w == SkipWhile(s, e, WHITESPACE)
    IN  IF e # 0 /\ LitAt(s, w, <<"<", "-">>)
        THEN Match(i, w + 2, i, SubSeq(s, i, e - 1))
        ELSE NoMatch

\* R_IDENT \s* :=
R_WALRUS_ASSIGN(s, i) ==
    LET e == RIdentEnd(s, i)
        w == SkipWhile(s, e, WHITESPACE)
    IN  IF e # 0 /\ LitAt(s, w, <<":", "=">>)
        THEN Match(i, w + 2, i, SubSeq(s, i, e - 1))
        ELSE NoMatch

\* R_IDENT \s* =        (no lookahead)
R_EQUALS_ASSIGN(s, i) ==
    LET e == RIdentEnd(s, i)
        w == SkipWhile(s, e, WHITESPACE)
    IN  IF e # 0 /\ LitAt(s, w, <<"=">>)
        THEN Match(i, w + 1, i, SubSeq(s, i, e - 1))
        ELSE NoMatch

RECURSIVE FirstClose(_, _)
\* .*? \)  with DOTALL: the position of the first ")" at or after j, 0 when
\* there is none.
FirstClose(s, j) ==
    IF j > Len(s) THEN 0
    ELSE IF s[j] = ")" THEN j
    ELSE FirstClose(s, j + 1)

\* mutate \s* \( (?P<content>.*?) \)
MUTATE_PATTERN(s, i) ==
    LET w == SkipWhile(s, i + 6, WHITESPACE)
        c == FirstClose(s, w + 1)
    IN  IF LitAt(s, i, <<"m", "u", "t", "a", "t", "e">>) /\ LitAt(s, w, <<"(">>) /\ c # 0
        THEN Match(i, c + 1, w + 1, SubSeq(s, w + 1, c - 1))
        ELSE NoMatch

\* ------------------------------------------------------------------------
\* re: Pattern.match at a position, Pattern.finditer
\* ------------------------------------------------------------------------

\* patterns[lang][name] applied at position i
MatchAt(pat, s, i) ==
    CASE pat = "py.equals"       -> PY_EQUALS_ASSIGN(s, i)
      [] pat = "py.walrus"       -> PY_WALRUS_ASSIGN(s, i)
      [] pat = "py.multi_assign" -> MULTI_ASSIGN(s, i)
      [] pat = "py.augmented"    -> AUGMENTED_ASSIGN(s, i)
      [] pat = "py.for_loop"     -> FOR_LOOP(s, i)
      [] pat = "py.var_name"     -> VAR_EXTRACTOR(s, i)
      [] pat = "r.r_assign"      -> R_ASSIGN(s, i)
      [] pat = "r.walrus"        -> R_WALRUS_ASSIGN(s, i)
      [] pat = "r.equals"        -> R_EQUALS_ASSIGN(s, i)
      [] pat = "r.mutate"        -> MUTATE_PATTERN(s, i)

RECURSIVE FindIterFrom(_, _, _)
\* The matches from position pos on: leftmost first, each search resuming at
\* the end of the previous match (no pattern here matches the empty string).
FindIterFrom(pat, s, pos) ==
    IF pos > Len(s)
    THEN <<>>
    ELSE LET m == MatchAt(pat, s, pos)
         IN  IF m.end # 0
             THEN <<m>> \o FindIterFrom(pat, s, m.end)
             ELSE FindIterFrom(pat, s, pos + 1)

finditer(pat, s) == FindIterFrom(pat, s, 1)

\* ------------------------------------------------------------------------
\* dict
\* ------------------------------------------------------------------------

\* The keys of a dict, in insertion order.
Keys(d) == [k \in 1..Len(d) |-> d[k].var]

KeySet(d) == {d[k].var : k \in 1..Len(d)}

\* d.get(var, 0)
Get(d, var) ==
    IF \E k \in 1..Len(d) : d[k].var = var
    THEN d[CHOOSE k \in 1..Len(d) : d[k].var = var].count
    ELSE 0

\* d[var] = n : an existing key keeps its place, a new key goes last.
SetItem(d, var, n) ==
    IF \E k \in 1..Len(d) : d[k].var = var
    THEN LET k == CHOOSE j \in 1..Len(d) : d[j].var = var
         IN  SubSeq(d, 1, k - 1) \o <<[var |-> var, count |-> n]>> \o SubSeq(d, k + 1, Len(d))
    ELSE Append(d, [var |-> var, count |-> n])

\* d[var] = d.get(var, 0) + n
AddCount(d, var, n) == SetItem(d, var, Get(d, var) + n)

\* ------------------------------------------------------------------------
\* analyze_python_file
\* ------------------------------------------------------------------------

\* The tuple literal of line 138-152.
KeywordDenylist ==
    { <<"i","f">>, <<"w","h","i","l","e">>, <<"f","o","r">>, <<"e","l","i","f">>,
      <<"r","e","t","u","r","n">>, <<"a","n","d">>, <<"o","r">>, <<"n","o","t">>,
      <<"i","s">>, <<"i","n">>, <<"N","o","n","e">>, <<"T","r","u","e">>,
      <<"F","a","l","s","e">> }

RECURSIVE CountVars(_, _)
\* for match in ...: local_counts[var] = local_counts.get(var, 0) + 1
CountVars(local, matches) ==
    IF matches = <<>>
    THEN local
    ELSE CountVars(AddCount(local, Head(matches).group, 1), Tail(matches))

\* The matches of the "equals" loop that pass the keyword test.
KeptEquals(matches) == SelectSeq(matches, LAMBDA m : m.group \notin KeywordDenylist)

\* Lines 135-153: standard assignments.
ProcessEquals(local, text) ==
    CountVars(local, KeptEquals(finditer("py.equals", text)))

\* Lines 156-158: walrus assignments.
ProcessWalrus(local, text) ==
    CountVars(local, finditer("py.walrus", text))

RECURSIVE CountMulti(_, _)
\* Lines 161-165: every identifier of every variable list.
CountMulti(local, matches) ==
    IF matches = <<>>
    THEN local
    ELSE CountMulti(CountVars(local, finditer("py.var_name", Head(matches).group)),
                    Tail(matches))

ProcessMulti(local, text) ==
    CountMulti(local, finditer("py.multi_assign", text))

\* Lines 168-170: augmented assignments.
ProcessAugmented(local, text) ==
    CountVars(local, finditer("py.augmented", text))

\* Lines 173-175: for loop variables.
ProcessForLoop(local, text) ==
    CountVars(local, finditer("py.for_loop", text))

\* The scan of a buffer that was read: the five loops in the code's order.
ScanPython(text) ==
    ProcessForLoop(
        ProcessAugmented(
            ProcessMulti(
                ProcessWalrus(
                    ProcessEquals(<<>>, text), text), text), text), text)

\* ------------------------------------------------------------------------
\* analyze_r_file
\* ------------------------------------------------------------------------

\* Lines 95-97: arrow assignments.
ProcessRAssign(local, text) ==
    CountVars(local, finditer("r.r_assign", text))

\* Lines 100-102: walrus assignments.
ProcessRWalrus(local, text) ==
    CountVars(local, finditer("r.walrus", text))

RECURSIVE CountMutate(_, _)
\* Lines 105-111: every "name =" inside the content of every mutate block.
CountMutate(local, blocks) ==
    IF blocks = <<>>
    THEN local
    ELSE CountMutate(CountVars(local, finditer("r.equals", Head(blocks).group)),
                     Tail(blocks))

ProcessMutate(local, text) ==
    CountMutate(local, finditer("r.mutate", text))

ScanR(text) ==
    ProcessMutate(ProcessRWalrus(ProcessRAssign(<<>>, text), text), text)

\* open() and f.read() of a file succeed or raise; a file that was read is
\* scanned and returned with True, any exception gives ({}, False).
analyze_python_file(f) ==
    IF f.readable
    THEN <<ScanPython(f.content), TRUE>>
    ELSE <<<<>>, FALSE>>

analyze_r_file(f) ==
    IF f.readable
    THEN <<ScanR(f.content), TRUE>>
    ELSE <<<<>>, FALSE>>

\* ------------------------------------------------------------------------
\* Bounds and input buffers
\* ------------------------------------------------------------------------

\* Longest Python buffer enumerated character by character.
MaxLen == 5

\* Longest R buffer enumerated lexeme by lexeme.
MaxLexemes == 5

\* All sequences over A of length at most n.
Seqs(A, n) == UNION {[1..k -> A] : k \in 0..n}

RECURSIVE Concat(_)
Concat(ss) == IF ss = <<>> THEN <<>> ELSE Head(ss) \o Concat(Tail(ss))

PyAlphabet == {"i", "f", "1", ",", "=", "+", " "}

\* x <op> 1 for each of the thirteen augmented operators
AugmentedExamples ==
    { <<"x"," ","+","="," ","1">>,
      <<"x"," ","-","="," ","1">>,
      <<"x"," ","*","="," ","1">>,
      <<"x"," ","/","="," ","1">>,
      <<"x"," ","%","="," ","1">>,
      <<"x"," ","@","="," ","1">>,
      <<"x"," ","&","="," ","1">>,
      <<"x"," ","|","="," ","1">>,
      <<"x"," ","^","="," ","1">>,
      <<"x"," ","/","/","="," ","1">>,
      <<"x"," ",">",">","="," ","1">>,
      <<"x"," ","<","<","="," ","1">>,
      <<"x"," ","*","*","="," ","1">> }

MultiTargetExample == <<"a",","," ","b",","," ","c"," ","="," ","1",","," ","2",","," ","3">>

EqualsThenAugmented == <<"x"," ","="," ","1","\n","x"," ","+","="," ","1">>

IfComparison == <<"i","f"," ","x"," ","=","="," ","y">>

ForLoopExample == <<"f","o","r"," ","i"," ","i","n"," ","r","a","n","g","e","(","3",")",":","\n"," "," "," "," ","t","o","t","a","l"," ","+","="," ","i","\n">>

ThreeAssignments == <<"x"," ","="," ","1","\n","y"," ","="," ","2","\n","x"," ","="," ","3","\n">>

WalrusExample == <<"i","f"," ","(","n"," ",":","="," ","1","0",")"," ",">"," ","5",":">>

\* <keyword> = 1 for each keyword of the denylist
KeywordExamples == {kw \o <<" ", "=", " ", "1">> : kw \in KeywordDenylist}

PyExamples ==
    AugmentedExamples \cup KeywordExamples \cup
    { MultiTargetExample, EqualsThenAugmented, IfComparison, ForLoopExample,
      ThreeAssignments, WalrusExample }

PyBuffers == Seqs(PyAlphabet, MaxLen) \cup PyExamples

MutateOpen == <<"m","u","t","a","t","e","(">>

RLexemes == { MutateOpen, <<")">>, <<"x">>, <<"y">>, <<"=">>, <<" ">> }

MutateExample == <<"m","u","t","a","t","e","(","x"," ","="," ","y"," ","+"," ","1",","," ","z"," ","="," ","2",")">>

MutateComparison == <<"m","u","t","a","t","e","(","x"," ","="," ","y"," ","=","="," ","1",")">>

ArrowExample == <<"y"," ","<","-"," ","1","\n","x"," ",":","="," ","2","\n","y"," ","<","-"," ","3","\n">>

BindingOutside == <<"w"," ","="," ","1","\n","m","u","t","a","t","e","(","d","f",","," ","y"," ","="," ","x",")","\n","z"," ","="," ","2">>

RExamples == { MutateExample, MutateComparison, ArrowExample, BindingOutside }

RBuffers == {Concat(l) : l \in Seqs(RLexemes, MaxLexemes)} \cup RExamples

\* ------------------------------------------------------------------------
\* should_skip_directory
\* ------------------------------------------------------------------------

\* skip_dirs of py_variable_counter.py
py_skip_dirs ==
    { <<".","g","i","t">>,
      <<"v","e","n","v">>,
      <<".","v","e","n","v">>,
      <<"e","n","v">>,
      <<"_","_","p","y","c","a","c","h","e","_","_">>,
      <<"n","o","d","e","_","m","o","d","u","l","e","s">>,
      <<".","p","y","t","e","s","t","_","c","a","c","h","e">>,
      <<".","m","y","p","y","_","c","a","c","h","e">>,
      <<".","t","o","x">>,
      <<"d","i","s","t">>,
      <<"b","u","i","l","d">>,
      <<".","i","d","e","a">>,
      <<".","v","s","c","o","d","e">>,
      <<".","i","p","y","n","b","_","c","h","e","c","k","p","o","i","n","t","s">> }

\* skip_dirs of r_variable_counter.py
r_skip_dirs ==
    { <<".","g","i","t">>,
      <<"v","e","n","v">>,
      <<".","v","e","n","v">>,
      <<"e","n","v">>,
      <<"_","_","p","y","c","a","c","h","e","_","_">>,
      <<"n","o","d","e","_","m","o","d","u","l","e","s">>,
      <<".","p","y","t","e","s","t","_","c","a","c","h","e">>,
      <<".","m","y","p","y","_","c","a","c","h","e">>,
      <<".","t","o","x">>,
      <<"d","i","s","t">>,
      <<"b","u","i","l","d">>,
      <<".","i","d","e","a">>,
      <<".","v","s","c","o","d","e">>,
      <<".","i","p","y","n","b","_","c","h","e","c","k","p","o","i","n","t","s">>,
      <<"r","e","n","v">> }

should_skip_directory(language, dirname) ==
    IF language = "python" THEN dirname \in py_skip_dirs ELSE dirname \in r_skip_dirs

\* str.endswith
EndsWith(name, suffix) == LitAt(name, Len(name) - Len(suffix) + 1, suffix)

\* The extension test of count_variables' inner loop.
IsSourceFile(language, name) ==
    IF language = "python"
    THEN EndsWith(name, <<".", "p", "y">>)
    ELSE EndsWith(name, <<".", "R">>) \/ EndsWith(name, <<".", "r">>)

\* analyze_python_file or analyze_r_file, by the pass that calls it.
analyze_file(language, f) ==
    IF language = "python" THEN analyze_python_file(f) ELSE analyze_r_file(f)

\* ------------------------------------------------------------------------
\* count_variables: fold and ranking
\* ------------------------------------------------------------------------

RECURSIVE MergeOverwriting(_, _)
\* Mutant of UpdateGlobalCounts: counts[var] = count, the earlier files'
\* count of var forgotten.
MergeOverwriting(global, file_counts) ==
    IF file_counts = <<>>
    THEN global
    ELSE MergeOverwriting(SetItem(global, Head(file_counts).var, Head(file_counts).count),
                          Tail(file_counts))

RECURSIVE UpdateGlobalCounts(_, _)
\* for var, count in file_counts.items(): counts[var] = counts.get(var, 0) + count
UpdateGlobalCounts(global, file_counts) ==
    IF file_counts = <<>>
    THEN global
    ELSE UpdateGlobalCounts(AddCount(global, Head(file_counts).var, Head(file_counts).count),
                            Tail(file_counts))

\* Mutant of AppendIfSuccess: the path is appended whatever the flag says.
AppendAlways(processed, path, success) == Append(processed, path)

\* if success: processed_files.append(path)
AppendIfSuccess(processed, path, success) ==
    IF success THEN Append(processed, path) ELSE processed

RECURSIVE InsertDescending(_, _)
\* x placed after every element whose key is at least its own: elements with
\* equal keys stay in the order they came in.
InsertDescending(sorted, x) ==
    IF sorted = <<>>
    THEN <<x>>
    ELSE IF Head(sorted).key >= x.key
         THEN <<Head(sorted)>> \o InsertDescending(Tail(sorted), x)
         ELSE <<x>> \o sorted

RECURSIVE InsertAscending(_, _)
InsertAscending(sorted, x) ==
    IF sorted = <<>>
    THEN <<x>>
    ELSE IF Head(sorted).key <= x.key
         THEN <<Head(sorted)>> \o InsertAscending(Tail(sorted), x)
         ELSE <<x>> \o sorted

RECURSIVE SortAscendingFrom(_, _)
SortAscendingFrom(sorted, rest) ==
    IF rest = <<>>
    THEN sorted
    ELSE SortAscendingFrom(InsertAscending(sorted, Head(rest)), Tail(rest))

Reverse(s) == [k \in 1..Len(s) |-> s[Len(s) + 1 - k]]

\* Mutant of SortedDescending: sorted ascending, then reversed, which turns
\* the order of equal keys around.
SortedAscendingReversed(keyed) == Reverse(SortAscendingFrom(<<>>, keyed))

RECURSIVE SortDescendingFrom(_, _)
SortDescendingFrom(sorted, rest) ==
    IF rest = <<>>
    THEN sorted
    ELSE SortDescendingFrom(InsertDescending(sorted, Head(rest)), Tail(rest))

\* sorted(..., key=..., reverse=True) and list.sort(key=..., reverse=True) on
\* a sequence of [key, item]: descending by key, stable.
SortedDescending(keyed) == SortDescendingFrom(<<>>, keyed)

Items(keyed) == [k \in 1..Len(keyed) |-> keyed[k].item]

\* sorted(counts.items(), key=lambda x: x[1], reverse=True)
sorted_vars(global) ==
    Items(SortedDescending([k \in 1..Len(global) |-> [key |-> global[k].count, item |-> global[k]]]))

\* ------------------------------------------------------------------------
\* combiner.py
\* ------------------------------------------------------------------------

Tagged(results, language) ==
    [k \in 1..Len(results) |->
        [var |-> results[k].var, count |-> results[k].count, language |-> language]]

\* Mutant of CombinedRows: an R entry whose identifier the Python ranking
\* already has is dropped.
CombinedRowsMerged(py, r) ==
    Tagged(py, "python") \o Tagged(SelectSeq(r, LAMBDA e : e.var \notin KeySet(py)), "r")

\* Lines 15-19: the two rankings, tagged, one after the other.
CombinedRows(py, r) == Tagged(py, "python") \o Tagged(r, "r")

\* Lines 15-22: combined.sort(key=lambda x: x[1], reverse=True)
generate_combined_report(py, r) ==
    LET rows == CombinedRows(py, r)
    IN  Items(SortedDescending([k \in 1..Len(rows) |-> [key |-> rows[k].count, item |-> rows[k]]]))

RECURSIVE dict(_)
\* dict(pairs): a later pair with the same key overwrites the value.
dict(pairs) ==
    IF pairs = <<>>
    THEN <<>>
    ELSE SetItem(dict(SubSeq(pairs, 1, Len(pairs) - 1)),
                 pairs[Len(pairs)].var, pairs[Len(pairs)].count)

\* Mutant of SharedKey: the shared list ordered by the Python count alone.
SharedKeyPythonOnly(rec) == rec.python_count

\* key=lambda x: x[1] + x[2]
SharedKey(rec) == rec.python_count + rec.r_count

\* Lines 35-50, with the iteration order of the set "shared" given: order is
\* a sequence holding each shared identifier once.
find_shared_variables(py, r, order) ==
    LET py_dict == dict(py)
        r_dict  == dict(r)
        shared_with_counts ==
            [k \in 1..Len(order) |->
                [var |-> order[k],
                 python_count |-> Get(py_dict, order[k]),
                 r_count |-> Get(r_dict, order[k])]]
    IN  Items(SortedDescending(
            [k \in 1..Len(order) |->
                [key |-> SharedKey(shared_with_counts[k]), item |-> shared_with_counts[k]]]))

\* The orders a for loop over the set S can take.
IterationOrders(S) ==
    {f \in [1..Cardinality(S) -> S] : \A j, k \in 1..Cardinality(S) : j # k => f[j] # f[k]}

\* ------------------------------------------------------------------------
\* State
\* ------------------------------------------------------------------------

VARIABLES
    \* one call of analyze_python_file / analyze_r_file
    file,             \* the file at file_path: [readable, content]
    content,          \* f.read()
    local_counts,     \* the dict being filled
    pc,               \* the loop the call is about to run
    ret,              \* the returned tuple (local_counts, success); <<>> before
    patterns,         \* the patterns argument: the keys of the dict handed in
    \* one run of combiner.py
    tree,             \* the directory tree under the argument
    phase,            \* where __main__ is
    lang,             \* the language of the pass in progress
    stack,            \* os.walk: directories still to yield
    root,             \* os.walk: the directory of the current iteration
    files,            \* the files of root not yet looked at
    counts,           \* count_variables: the global dict
    processed_files,  \* count_variables: the list of files read
    scanned,          \* history: per language, the files handed to the scanner
    walked,           \* history: per language, the directories os.walk yielded
    py_results, py_files, r_results, r_files,
    combined,         \* the rows of combined_vars.csv
    shared_vars,      \* find_shared_variables' list
    shared_csv        \* the rows of shared_variables.csv

scanVars == <<file, content, local_counts, pc, ret, patterns>>

runVars == <<tree, phase, lang, stack, root, files, counts, processed_files,
             scanned, walked, py_results, py_files, r_results, r_files,
             combined, shared_vars, shared_csv>>

vars == <<scanVars, runVars>>

NoHistory == [python |-> <<>>, r |-> <<>>]

EmptyTree == [directory |-> <<".">>, parent |-> <<>>, entry |-> <<>>]

\* No run of combiner.py is in progress.
RunIdle ==
    /\ tree = EmptyTree
    /\ phase = "idle"
    /\ lang = "none"
    /\ stack = <<>>
    /\ root = 0
    /\ files = <<>>
    /\ counts = <<>>
    /\ processed_files = <<>>
    /\ scanned = NoHistory
    /\ walked = NoHistory
    /\ py_results = <<>>
    /\ py_files = <<>>
    /\ r_results = <<>>
    /\ r_files = <<>>
    /\ combined = <<>>
    /\ shared_vars = <<>>
    /\ shared_csv = <<>>

\* No call of a file scanner is being stepped through.
ScanIdle ==
    /\ file = [readable |-> FALSE, content |-> <<>>]
    /\ content = <<>>
    /\ local_counts = <<>>
    /\ pc = "idle"
    /\ ret = <<>>
    /\ patterns = {}

\* ------------------------------------------------------------------------
\* analyze_python_file, loop by loop
\* ------------------------------------------------------------------------

\* Lines 89-98: the keys of the dict get_python_patterns returns.
get_python_patterns ==
    {"equals", "walrus", "multi_assign", "augmented", "for_loop", "var_name"}

\* r_variable_counter.py lines 52-57: the keys of the dict get_r_patterns returns.
get_r_patterns == {"r_assign", "walrus", "equals", "mutate"}

ScanInit(buffers, dicts) ==
    /\ file \in {[readable |-> TRUE, content |-> b] : b \in buffers}
                \cup {[readable |-> FALSE, content |-> <<>>]}
    /\ patterns \in dicts
    /\ content = <<>>
    /\ local_counts = <<>>
    /\ pc = "open"
    /\ ret = <<>>
    /\ RunIdle

\* Lines 131-132 (py), 91-92 (r): open and read.
Read ==
    /\ pc = "open"
    /\ file.readable
    /\ content' = file.content
    /\ pc' = "first"
    /\ UNCHANGED <<file, local_counts, ret, patterns, runVars>>

\* Lines 179-181 (py), 115-117 (r): the exception is caught, ({}, False).
ReadFails ==
    /\ pc = "open"
    /\ ~file.readable
    /\ ret' = <<<<>>, FALSE>>
    /\ pc' = "done"
    /\ UNCHANGED <<file, content, local_counts, patterns, runVars>>

\* One loop of the scanner: from, to are the positions before and after it,
\* keys the rules it looks up in patterns. A key that is missing raises
\* KeyError inside the try block: lines 179-181 (py), 115-117 (r) catch it
\* as they catch a failed read, and ({}, False) is returned.
Loop(from, to, keys, counted) ==
    /\ pc = from
    /\ IF keys \subseteq patterns
       THEN /\ local_counts' = counted
            /\ pc' = to
            /\ ret' = ret
       ELSE /\ local_counts' = local_counts
            /\ pc' = "done"
            /\ ret' = <<<<>>, FALSE>>
    /\ UNCHANGED <<file, content, patterns, runVars>>

\* patterns["var_name"] (line 163) and, in the R scanner, patterns["equals"]
\* (line 109) are looked up in the body of the outer loop, once per match.
InnerKey(outer, inner) == IF finditer(outer, content) = <<>> THEN {} ELSE {inner}

PyEquals == Loop("first", "walrus", {"equals"}, ProcessEquals(local_counts, content))

PyWalrus == Loop("walrus", "multi_assign", {"walrus"}, ProcessWalrus(local_counts, content))

PyMulti ==
    Loop("multi_assign", "augmented",
         {"multi_assign"} \cup InnerKey("py.multi_assign", "var_name"),
         ProcessMulti(local_counts, content))

PyAugmented == Loop("augmented", "for_loop", {"augmented"}, ProcessAugmented(local_counts, content))

PyForLoop == Loop("for_loop", "return", {"for_loop"}, ProcessForLoop(local_counts, content))

\* Line 177 (py), 113 (r): return local_counts, True
Return ==
    /\ pc = "return"
    /\ ret' = <<local_counts, TRUE>>
    /\ pc' = "done"
    /\ UNCHANGED <<file, content, local_counts, patterns, runVars>>

\* Line 189: count_variables hands in what get_python_patterns returns.
PyInit == ScanInit(PyBuffers, {get_python_patterns})

PyNext ==
    \/ Read
    \/ ReadFails
    \/ PyEquals
    \/ PyWalrus
    \/ PyMulti
    \/ PyAugmented
    \/ PyForLoop
    \/ Return

SpecPy == PyInit /\ [][PyNext]_vars

\* analyze_python_file takes patterns from its caller: the dict of
\* get_python_patterns, or one that lacks a rule the scanner looks up.
PatternDicts ==
    {get_python_patterns} \cup {get_python_patterns \ {key} : key \in get_python_patterns}

PyCallInit == ScanInit(PyExamples, PatternDicts)

SpecPyCall == PyCallInit /\ [][PyNext]_vars

\* ------------------------------------------------------------------------
\* analyze_r_file, loop by loop
\* ------------------------------------------------------------------------

RArrow == Loop("first", "walrus", {"r_assign"}, ProcessRAssign(local_counts, content))

RWalrus == Loop("walrus", "mutate", {"walrus"}, ProcessRWalrus(local_counts, content))

RMutate ==
    Loop("mutate", "return",
         {"mutate"} \cup InnerKey("r.mutate", "equals"),
         ProcessMutate(local_counts, content))

\* Line 125: count_variables hands in what get_r_patterns returns.
RInit == ScanInit(RBuffers, {get_r_patterns})

RNext ==
    \/ Read
    \/ ReadFails
    \/ RArrow
    \/ RWalrus
    \/ RMutate
    \/ Return

SpecR == RInit /\ [][RNext]_vars

\* ------------------------------------------------------------------------
\* The directory tree
\* ------------------------------------------------------------------------

\* Entries below the top directory (nodes 1..MaxNodes; node 0 is the top).
MaxNodes == 3

Dir(name) == [kind |-> "dir", name |-> name, readable |-> TRUE, content |-> <<>>]

File(name, readable, text) ==
    [kind |-> "file", name |-> name, readable |-> readable, content |-> text]

\* y is assigned three times by "<-", x once by ":="
ArrowThrice == <<"y"," ","<","-"," ","1","\n","x"," ",":","="," ","2","\n","y"," ","<","-"," ","3","\n","y"," ","<","-"," ","4","\n">>

DirEntries == { Dir(<<"p","k","g">>), Dir(<<".","g","i","t">>), Dir(<<"r","e","n","v">>) }

FileEntries ==
    { File(<<"a",".","p","y">>, TRUE, ThreeAssignments),
      File(<<"b",".","p","y">>, TRUE, ForLoopExample),
      File(<<"c",".","p","y">>, FALSE, ThreeAssignments),
      File(<<"b",".","R">>, TRUE, MutateExample),
      File(<<"d",".","r">>, TRUE, ArrowThrice),
      File(<<"e",".","R">>, FALSE, ArrowThrice),
      File(<<"n","o","t","e","s",".","t","x","t">>, TRUE, ThreeAssignments) }

Entries == DirEntries \cup FileEntries

\* The argument of the command line. The top directory is scanned whatever
\* its name, so it is given a name of the skip lists.
Directories == { <<"b","u","i","l","d">> }

Nodes == 1..MaxNodes

\* Every entry lies in the top directory or in a directory entry listed
\* before it, and no two entries of a directory share a name.
WellFormed(t) ==
    /\ \A n \in Nodes : t.parent[n] # 0 => t.entry[t.parent[n]].kind = "dir"
    /\ \A m, n \in Nodes :
          (m # n /\ t.parent[m] = t.parent[n]) => t.entry[m].name # t.entry[n].name

Trees ==
    {t \in [directory : Directories,
            parent : {p \in [Nodes -> 0..(MaxNodes - 1)] : \A n \in Nodes : p[n] < n},
            entry : [Nodes -> Entries]] : WellFormed(t)}

\* os.scandir: the entries of directory d of a kind, in listing order.
Listing(t, d, kind) ==
    SelectSeq([n \in Nodes |-> n],
              LAMBDA n : t.parent[n] = d /\ t.entry[n].kind = kind)

RECURSIVE PathOf(_, _)
\* os.path.join down from the top directory, as the sequence of components.
PathOf(t, n) ==
    IF n = 0 THEN <<t.directory>> ELSE Append(PathOf(t, t.parent[n]), t.entry[n].name)

\* Mutant of KeptDirs: the filter applied in the top directory only.
KeptDirsTopOnly(language, t, d) ==
    IF d = 0
    THEN SelectSeq(Listing(t, d, "dir"),
                   LAMBDA n : ~should_skip_directory(language, t.entry[n].name))
    ELSE Listing(t, d, "dir")

\* dirs[:] = [d for d in dirs if not should_skip_directory(d)]
KeptDirs(language, t, d) ==
    SelectSeq(Listing(t, d, "dir"),
              LAMBDA n : ~should_skip_directory(language, t.entry[n].name))

\* ------------------------------------------------------------------------
\* combiner.py __main__ : the two passes, the combined report, the shared list
\* ------------------------------------------------------------------------

\* The scanners are functions of the file alone: what each returns for each
\* file entry, tabulated once.
FileScans ==
    { <<language, e, analyze_file(language, e)>> : language \in {"python", "r"}, e \in FileEntries }

FileScan(language, e) == (CHOOSE t \in FileScans : t[1] = language /\ t[2] = e)[3]

Init ==
    /\ ScanIdle
    /\ tree \in Trees
    /\ phase = "start"
    /\ lang = "python"
    /\ stack = <<>>
    /\ root = 0
    /\ files = <<>>
    /\ counts = <<>>
    /\ processed_files = <<>>
    /\ scanned = NoHistory
    /\ walked = NoHistory
    /\ py_results = <<>>
    /\ py_files = <<>>
    /\ r_results = <<>>
    /\ r_files = <<>>
    /\ combined = <<>>
    /\ shared_vars = <<>>
    /\ shared_csv = <<>>

\* Lines 187-192 (py), 123-128 (r): the locals of count_variables, os.walk
\* started on the directory.
StartPass ==
    /\ phase = "start"
    /\ counts' = <<>>
    /\ processed_files' = <<>>
    /\ stack' = <<0>>
    /\ files' = <<>>
    /\ root' = 0
    /\ phase' = "walk"
    /\ UNCHANGED <<scanVars, tree, lang, scanned, walked, py_results, py_files,
                   r_results, r_files, combined, shared_vars, shared_csv>>

\* Lines 192-194 (py), 128-130 (r): os.walk yields the next directory top
\* down, the loop prunes dirs in place, and os.walk goes on with what is left
\* of dirs before the directories that were waiting.
WalkDir ==
    /\ phase = "walk"
    /\ files = <<>>
    /\ stack # <<>>
    /\ LET d == Head(stack)
       IN  /\ root' = d
           /\ files' = Listing(tree, d, "file")
           /\ stack' = KeptDirs(lang, tree, d) \o Tail(stack)
           /\ walked' = [walked EXCEPT ![lang] = Append(@, d)]
    /\ UNCHANGED <<scanVars, tree, phase, lang, counts, processed_files, scanned,
                   py_results, py_files, r_results, r_files, combined, shared_vars,
                   shared_csv>>

\* Lines 197-206 (py), 133-142 (r): a file with the extension is scanned,
\* its counts are folded in, its path is appended when it was read.
ScanFile ==
    /\ phase = "walk"
    /\ files # <<>>
    /\ IsSourceFile(lang, tree.entry[Head(files)].name)
    /\ LET f      == Head(files)
           result == FileScan(lang, tree.entry[f])
       IN  /\ counts' = UpdateGlobalCounts(counts, result[1])
           /\ processed_files' = AppendIfSuccess(processed_files, PathOf(tree, f), result[2])
           /\ scanned' = [scanned EXCEPT ![lang] = Append(@, f)]
    /\ files' = Tail(files)
    /\ UNCHANGED <<scanVars, tree, phase, lang, stack, root, walked, py_results,
                   py_files, r_results, r_files, combined, shared_vars, shared_csv>>

\* Line 197 (py), 133 (r): a file without the extension is passed over.
SkipFile ==
    /\ phase = "walk"
    /\ files # <<>>
    /\ ~IsSourceFile(lang, tree.entry[Head(files)].name)
    /\ files' = Tail(files)
    /\ UNCHANGED <<scanVars, tree, phase, lang, stack, root, counts, processed_files,
                   scanned, walked, py_results, py_files, r_results, r_files, combined,
                   shared_vars, shared_csv>>

\* Lines 209-210 (py), 145-146 (r), combiner 75 and 82: the walk is over,
\* the ranking and the file list are returned.
ReturnPass ==
    /\ phase = "walk"
    /\ files = <<>>
    /\ stack = <<>>
    /\ IF lang = "python"
       THEN /\ py_results' = sorted_vars(counts)
            /\ py_files' = processed_files
            /\ UNCHANGED <<r_results, r_files>>
       ELSE /\ r_results' = sorted_vars(counts)
            /\ r_files' = processed_files
            /\ UNCHANGED <<py_results, py_files>>
    /\ phase' = "returned"
    /\ UNCHANGED <<scanVars, tree, lang, stack, root, files, counts, processed_files,
                   scanned, walked, combined, shared_vars, shared_csv>>

\* combiner 76-81 and 83-85: the results are saved and summarised; after
\* Python comes R, after R the combined report.
SaveResults ==
    /\ phase = "returned"
    /\ IF lang = "python"
       THEN lang' = "r" /\ phase' = "start"
       ELSE lang' = lang /\ phase' = "combine"
    /\ UNCHANGED <<scanVars, tree, stack, root, files, counts, processed_files, scanned,
                   walked, py_results, py_files, r_results, r_files, combined,
                   shared_vars, shared_csv>>

\* combiner 88: generate_combined_report writes the rows of combined_vars.csv.
CombinedReport ==
    /\ phase = "combine"
    /\ combined' = generate_combined_report(py_results, r_results)
    /\ phase' = "shared"
    /\ UNCHANGED <<scanVars, tree, lang, stack, root, files, counts, processed_files,
                   scanned, walked, py_results, py_files, r_results, r_files,
                   shared_vars, shared_csv>>

\* combiner 92: find_shared_variables; the set "shared" is iterated in an
\* order the program does not fix.
FindShared ==
    /\ phase = "shared"
    /\ \E order \in IterationOrders(KeySet(py_results) \cap KeySet(r_results)) :
          shared_vars' = find_shared_variables(py_results, r_results, order)
    /\ phase' = "write"
    /\ UNCHANGED <<scanVars, tree, lang, stack, root, files, counts, processed_files,
                   scanned, walked, py_results, py_files, r_results, r_files, combined,
                   shared_csv>>

\* combiner 98-101: the rows of shared_variables.csv, with the total.
WriteShared ==
    /\ phase = "write"
    /\ shared_csv' =
          [k \in 1..Len(shared_vars) |->
              [var |-> shared_vars[k].var,
               python_count |-> shared_vars[k].python_count,
               r_count |-> shared_vars[k].r_count,
               total |-> shared_vars[k].python_count + shared_vars[k].r_count]]
    /\ phase' = "done"
    /\ UNCHANGED <<scanVars, tree, lang, stack, root, files, counts, processed_files,
                   scanned, walked, py_results, py_files, r_results, r_files, combined,
                   shared_vars>>

Next ==
    \/ StartPass
    \/ WalkDir
    \/ ScanFile
    \/ SkipFile
    \/ ReturnPass
    \/ SaveResults
    \/ CombinedReport
    \/ FindShared
    \/ WriteShared

Spec == Init /\ [][Next]_vars

\* ------------------------------------------------------------------------
\* Properties of the scanners
\* ------------------------------------------------------------------------

Returned == pc = "done" /\ ret # <<>> /\ ret[2]

\* The sites a loop counts: where each counted identifier starts, and its text.
SitesOf(matches) ==
    [k \in 1..Len(matches) |-> [pos |-> matches[k].gstart, var |-> matches[k].group]]

RECURSIVE MultiSites(_)
MultiSites(matches) ==
    IF matches = <<>>
    THEN <<>>
    ELSE LET m  == Head(matches)
             vs == finditer("py.var_name", m.group)
         IN  [k \in 1..Len(vs) |-> [pos |-> m.gstart + vs[k].start - 1, var |-> vs[k].group]]
             \o MultiSites(Tail(matches))

EqualsSites(s) == SitesOf(KeptEquals(finditer("py.equals", s)))
WalrusSites(s) == SitesOf(finditer("py.walrus", s))
MultiAssignSites(s) == MultiSites(finditer("py.multi_assign", s))
AugmentedSites(s) == SitesOf(finditer("py.augmented", s))
ForLoopSites(s) == SitesOf(finditer("py.for_loop", s))

Range(f) == {f[k] : k \in DOMAIN f}

\* How many sites of a sequence name var.
Occurrences(sites, var) == Cardinality({k \in 1..Len(sites) : sites[k].var = var})

IsPyIdentifier(v) ==
    /\ v # <<>>
    /\ v[1] \in PyIdStart
    /\ \A k \in 2..Len(v) : v[k] \in PyIdChar

RECURSIVE SplitOn(_, _)
\* s cut at every occurrence of the character c.
SplitOn(s, c) ==
    IF \E k \in 1..Len(s) : s[k] = c
    THEN LET k == CHOOSE j \in 1..Len(s) : s[j] = c /\ \A h \in 1..(j - 1) : s[h] # c
         IN  <<SubSeq(s, 1, k - 1)>> \o SplitOn(SubSeq(s, k + 1, Len(s)), c)
    ELSE <<s>>

\* s without the whitespace in it.
Unspaced(s) == SelectSeq(s, LAMBDA ch : ch \notin WHITESPACE)

\* The position of the first "=" of s, 0 when there is none.
FirstEq(s) ==
    IF \E k \in 1..Len(s) : s[k] = "="
    THEN CHOOSE k \in 1..Len(s) : s[k] = "=" /\ \A h \in 1..(k - 1) : s[h] # "="
    ELSE 0

\* The targets of a buffer "t1, t2, ... = rhs".
Targets(s) == LET pieces == SplitOn(SubSeq(s, 1, FirstEq(s) - 1), ",")
              IN  [k \in 1..Len(pieces) |-> Unspaced(pieces[k])]

\* A buffer that is one multi-target assignment of literals: two or more
\* distinct identifiers separated by commas, "=", and a right-hand side of
\* integer literals and commas.
IsMultiTargetAssignment(s) ==
    /\ FirstEq(s) > 1
    /\ LET lhs == SubSeq(s, 1, FirstEq(s) - 1)
           rhs == SubSeq(s, FirstEq(s) + 1, Len(s))
           ts  == Targets(s)
       IN  /\ Len(ts) >= 2
           /\ \A k \in 1..Len(ts) : IsPyIdentifier(ts[k])
           /\ \A k \in 1..Len(SplitOn(lhs, ",")) :
                 \* whitespace only around an identifier, not inside it
                 LET piece == SplitOn(lhs, ",")[k]
                     a == SkipWhile(piece, 1, WHITESPACE)
                 IN  SkipWhile(piece, PyIdentEnd(piece, a), WHITESPACE) = Len(piece) + 1
           /\ \A j, k \in 1..Len(ts) : j # k => ts[j] # ts[k]
           /\ \E k \in 1..Len(rhs) : rhs[k] \in Digit
           /\ \A k \in 1..Len(rhs) : rhs[k] \in Digit \cup {",", " "}

\* C2: for a buffer that is one multi-target assignment (a, b, c = 1, 2, 3),
\* analyze_python_file returns a mapping in which every listed identifier,
\* the last one before the "=" included, has count exactly 1 and nothing else
\* is counted.
C2_MultiTargetOnceEach ==
    (Returned /\ IsMultiTargetAssignment(content)) =>
        /\ KeySet(ret[1]) = Range(Targets(content))
        /\ \A v \in KeySet(ret[1]) : Get(ret[1], v) = 1

\* C8: every augmented-assignment site is counted once by the augmented loop
\* and by no other loop; the returned count of an identifier is the sum of its
\* sites over all five loops (nothing is deduplicated); each "x <op> 1" gives
\* {x: 1}, and "x = 1" followed by "x += 1" gives {x: 2}.
C8_AugmentedCountedOnceAndAdditive ==
    Returned =>
        LET aug    == AugmentedSites(content)
            others == Range(EqualsSites(content)) \cup Range(WalrusSites(content))
                      \cup Range(MultiAssignSites(content)) \cup Range(ForLoopSites(content))
            all    == EqualsSites(content) \o WalrusSites(content)
                      \o MultiAssignSites(content) \o aug \o ForLoopSites(content)
        IN  /\ \A k \in 1..Len(aug) : aug[k] \notin others
            /\ \A j, k \in 1..Len(aug) : j # k => aug[j] # aug[k]
            /\ KeySet(ret[1]) = {all[k].var : k \in 1..Len(all)}
            /\ \A v \in KeySet(ret[1]) : Get(ret[1], v) = Occurrences(all, v)
            /\ content \in AugmentedExamples =>
                   /\ Len(aug) = 1
                   /\ ret[1] = <<[var |-> <<"x">>, count |-> 1]>>
            /\ content = EqualsThenAugmented =>
                   ret[1] = <<[var |-> <<"x">>, count |-> 2]>>

\* x is assigned once by "=" and once by "+=": the count is 2.
C8_Witness ==
    /\ Returned
    /\ content = EqualsThenAugmented
    /\ Len(AugmentedSites(content)) = 1
    /\ Len(EqualsSites(content)) = 1
    /\ Get(ret[1], <<"x">>) = 2

\* The keywords the simple-assignment rule must never count.
ClaimedKeywords ==
    { <<"i","f">>,
      <<"w","h","i","l","e">>,
      <<"f","o","r">>,
      <<"e","l","i","f">>,
      <<"r","e","t","u","r","n">>,
      <<"a","n","d">>,
      <<"o","r">>,
      <<"n","o","t">>,
      <<"i","s">>,
      <<"i","n">>,
      <<"N","o","n","e">>,
      <<"T","r","u","e">>,
      <<"F","a","l","s","e">> }

\* v stands at position p of s and is followed, after optional whitespace, by
\* an "=" that is not followed by another "=".
BareEqualsSite(s, p, v) ==
    /\ LitAt(s, p, v)
    /\ \E k \in (p + Len(v))..Len(s) :
          /\ \A j \in (p + Len(v))..(k - 1) : s[j] \in WHITESPACE
          /\ s[k] = "="
          /\ ~(k + 1 <= Len(s) /\ s[k + 1] = "=")

\* C9: after the simple-assignment loop (and nothing else) has run, every
\* counted identifier is an identifier outside the keyword denylist, and it is
\* counted at most once per site where it is followed, after optional
\* whitespace, by an "=" not followed by another "="; "if x == y" counts
\* nothing.
C9_SimpleAssignmentOnlyAtBareEquals ==
    /\ pc = "walrus" =>
          /\ \A v \in KeySet(local_counts) :
                /\ IsPyIdentifier(v)
                /\ v \notin ClaimedKeywords
                /\ Get(local_counts, v) >= 1
                /\ Get(local_counts, v)
                     <= Cardinality({p \in 1..Len(content) : BareEqualsSite(content, p, v)})
          /\ content = IfComparison => local_counts = <<>>
    /\ (Returned /\ content = IfComparison) => ret[1] = <<>>

\* "if=i=" : the keyword before a bare "=" is not counted, the identifier is.
C9_Witness ==
    /\ pc = "walrus"
    /\ content = <<"i", "f", "=", "i", "=">>
    /\ BareEqualsSite(content, 1, <<"i", "f">>)
    /\ local_counts = <<[var |-> <<"i">>, count |-> 1]>>

\* The "name =" matches ms of an argument list are binding names: a comma
\* separates any two of them, so that none lies on the right-hand side of an
\* earlier binding of the same argument.
AreBindingNames(args, ms) ==
    \A j, k \in 1..Len(ms) :
        j < k => \E p \in ms[j].end..(ms[k].start - 1) : args[p] = ","

RECURSIVE BindingCount(_)
\* The number of "name =" matches in the contents of the mutate blocks.
BindingCount(blocks) ==
    IF blocks = <<>> THEN 0
    ELSE Len(finditer("r.equals", Head(blocks).group)) + BindingCount(Tail(blocks))

RECURSIVE SumCounts(_)
SumCounts(d) == IF d = <<>> THEN 0 ELSE Head(d).count + SumCounts(Tail(d))

\* C10: in an R buffer "<identifier> =" is counted only inside the argument
\* list of a mutate( call (up to the first ")"), each binding name counts
\* once, an identifier used only on the right-hand side of a binding is not
\* counted, and mutate(x = y + 1, z = 2) yields exactly {x: 1, z: 1}.
C10_OnlyMutateBindingNames ==
    Returned =>
        LET blocks == finditer("r.mutate", content)
        IN  /\ \A b \in 1..Len(blocks) :
                  AreBindingNames(blocks[b].group, finditer("r.equals", blocks[b].group))
            /\ SumCounts(ret[1]) = Len(finditer("r.r_assign", content))
                                   + Len(finditer("r.walrus", content))
                                   + BindingCount(blocks)
            /\ content = MutateExample =>
                  ret[1] = <<[var |-> <<"x">>, count |-> 1], [var |-> <<"z">>, count |-> 1]>>

\* C11: an error raised while the patterns are applied to the text of a file
\* that was read is not handled as a per-file failure: ({}, False) is what
\* the scanner returns for a file it could not read, and for no other call.
C11_InternalErrorNotReturnedAsFailure ==
    (pc = "done" /\ ret = <<<<>>, FALSE>>) => ~file.readable

\* ------------------------------------------------------------------------
\* Properties of the passes and of the combiner
\* ------------------------------------------------------------------------

Languages == {"python", "r"}

\* The number of sites the loops of a scanner match in a buffer.
MatchTotal(language, s) ==
    IF language = "python"
    THEN Len(EqualsSites(s)) + Len(WalrusSites(s)) + Len(MultiAssignSites(s))
         + Len(AugmentedSites(s)) + Len(ForLoopSites(s))
    ELSE Len(finditer("r.r_assign", s)) + Len(finditer("r.walrus", s))
         + BindingCount(finditer("r.mutate", s))

\* Per file entry: what a scan of its text counts, and how many sites match.
TextScans ==
    { <<language, e, IF language = "python" THEN ScanPython(e.content) ELSE ScanR(e.content),
        MatchTotal(language, e.content)>> : language \in Languages, e \in FileEntries }

TextScan(language, e) == CHOOSE t \in TextScans : t[1] = language /\ t[2] = e

RECURSIVE SumOver(_, _)
\* The sum of f over the elements of a sequence of nodes.
SumOver(ns, f) == IF ns = <<>> THEN 0 ELSE f[Head(ns)] + SumOver(Tail(ns), f)

\* The local count of v that the scanner returned for node n.
ReturnedCount(language, v) ==
    [n \in Nodes |-> IF tree.entry[n].kind = "file"
                     THEN Get(FileScan(language, tree.entry[n])[1], v) ELSE 0]

\* The count of v in the text of node n.
TextCount(language, v) ==
    [n \in Nodes |-> IF tree.entry[n].kind = "file"
                     THEN Get(TextScan(language, tree.entry[n])[3], v) ELSE 0]

TextTotal(language) ==
    [n \in Nodes |-> IF tree.entry[n].kind = "file"
                     THEN TextScan(language, tree.entry[n])[4] ELSE 0]

Identifiers ==
    UNION {KeySet(t[3]) : t \in TextScans}

InPass == phase \in {"walk", "returned"}

CurrentResults == IF lang = "python" THEN py_results ELSE r_results

CurrentFiles == IF lang = "python" THEN py_files ELSE r_files

Readable(ns) == SelectSeq(ns, LAMBDA n : tree.entry[n].readable)

Paths(ns) == [k \in 1..Len(ns) |-> PathOf(tree, ns[k])]

\* C1: during a pass the global count of every identifier is the sum of the
\* local counts returned for the files scanned so far, and the counts of the
\* returned ranking add up to the number of matched sites in the files of the
\* returned file list (a file that failed adds nothing).
C1_GlobalCountIsSumOfLocalCounts ==
    /\ InPass =>
          /\ \A v \in Identifiers \cup KeySet(counts) :
                Get(counts, v) = SumOver(scanned[lang], ReturnedCount(lang, v))
          /\ \A k \in 1..Len(counts) : counts[k].count >= 1
    /\ phase = "returned" =>
          SumCounts(CurrentResults)
             = SumOver(SelectSeq([n \in Nodes |-> n],
                                 LAMBDA n : PathOf(tree, n) \in Range(CurrentFiles)),
                       TextTotal(lang))

\* Two files of the pass assign the same identifier and the pass has returned
\* the sum.
C1_Witness ==
    /\ phase = "returned"
    /\ lang = "python"
    /\ Len(scanned[lang]) >= 2
    /\ \E j, k \in 1..Len(scanned[lang]) :
          /\ j # k
          /\ ReturnedCount(lang, <<"x">>)[scanned[lang][j]] = 2
          /\ ReturnedCount(lang, <<"x">>)[scanned[lang][k]] = 2
    /\ Get(py_results, <<"x">>) = 4

RECURSIVE Below(_, _)
\* The files with the extension that a pass comes to from directory d, in the
\* order of a top-down walk that leaves out the directories to skip.
Below(language, d) ==
    LET here == SelectSeq(Listing(tree, d, "file"),
                          LAMBDA n : IsSourceFile(language, tree.entry[n].name))
        subs == SelectSeq(Listing(tree, d, "dir"),
                          LAMBDA n : ~should_skip_directory(language, tree.entry[n].name))
    IN  here \o Concat([k \in 1..Len(subs) |-> Below(language, subs[k])])

\* C3: a file that cannot be read gives ({}, False); the pass adds nothing
\* for it, does not list it, and goes on: the processed-file list is exactly
\* the readable files with the extension, in traversal order.
C3_ReadFailureSkipsOnlyThatFile ==
    /\ InPass =>
          /\ \A n \in Range(scanned[lang]) :
                ~tree.entry[n].readable => FileScan(lang, tree.entry[n]) = <<<<>>, FALSE>>
          /\ processed_files = Paths(Readable(scanned[lang]))
          /\ \A v \in Identifiers \cup KeySet(counts) :
                Get(counts, v) = SumOver(Readable(scanned[lang]), TextCount(lang, v))
    /\ phase = "returned" =>
          /\ scanned[lang] = Below(lang, 0)
          /\ CurrentFiles = Paths(Readable(Below(lang, 0)))

\* An unreadable file was met before a readable one, which is listed.
C3_Witness ==
    /\ phase = "returned"
    /\ \E j, k \in 1..Len(scanned[lang]) :
          /\ j < k
          /\ ~tree.entry[scanned[lang][j]].readable
          /\ tree.entry[scanned[lang][k]].readable
          /\ CurrentFiles = <<PathOf(tree, scanned[lang][k])>>
          /\ counts # <<>>

\* The place of var in the keys of a dict.
IndexOf(d, var) == CHOOSE k \in 1..Len(d) : d[k].var = var

\* C4: the returned ranking has one entry per identifier of the global
\* mapping, with its count; counts do not increase along it; entries with
\* equal counts are in the order their identifiers entered the mapping.
C4_RankingDescendingAndStable ==
    phase = "returned" =>
        LET ranking == CurrentResults
        IN  /\ Len(ranking) = Len(counts)
            /\ Range(ranking) = Range(counts)
            /\ \A j, k \in 1..Len(ranking) : j # k => ranking[j].var # ranking[k].var
            /\ \A k \in 1..(Len(ranking) - 1) : ranking[k].count >= ranking[k + 1].count
            /\ \A j, k \in 1..Len(ranking) :
                  (j < k /\ ranking[j].count = ranking[k].count)
                      => IndexOf(counts, ranking[j].var) < IndexOf(counts, ranking[k].var)

\* A ranking that differs from the insertion order and holds a tie.
C4_Witness ==
    /\ phase = "returned"
    /\ Len(CurrentResults) >= 3
    /\ CurrentResults # counts
    /\ \E k \in 1..(Len(CurrentResults) - 1) :
          CurrentResults[k].count = CurrentResults[k + 1].count
    /\ \E k \in 1..(Len(CurrentResults) - 1) :
          CurrentResults[k].count > CurrentResults[k + 1].count

AfterShared == phase \in {"write", "done"}

\* C5: find_shared_variables returns one record for every identifier of both
\* rankings and for no other; its counts are the identifier's global counts
\* of the two passes; the records are ordered by python_count + r_count,
\* descending.
C5_SharedVariables ==
    AfterShared =>
        /\ {shared_vars[k].var : k \in 1..Len(shared_vars)}
              = KeySet(py_results) \cap KeySet(r_results)
        /\ \A j, k \in 1..Len(shared_vars) :
              j # k => shared_vars[j].var # shared_vars[k].var
        /\ \A k \in 1..Len(shared_vars) :
              /\ shared_vars[k].python_count = Get(py_results, shared_vars[k].var)
              /\ shared_vars[k].r_count = Get(r_results, shared_vars[k].var)
              /\ shared_vars[k].python_count
                    = SumOver(scanned["python"], ReturnedCount("python", shared_vars[k].var))
              /\ shared_vars[k].r_count
                    = SumOver(scanned["r"], ReturnedCount("r", shared_vars[k].var))
        /\ \A k \in 1..(Len(shared_vars) - 1) :
              shared_vars[k].python_count + shared_vars[k].r_count
                 >= shared_vars[k + 1].python_count + shared_vars[k + 1].r_count
        /\ phase = "done" =>
              \A k \in 1..Len(shared_csv) :
                  shared_csv[k].total = shared_csv[k].python_count + shared_csv[k].r_count

\* Two shared identifiers whose order by total is not their order by Python
\* count, and which are at different places in the two rankings.
C5_Witness ==
    /\ phase = "done"
    /\ Len(shared_vars) = 2
    /\ shared_vars[1].python_count < shared_vars[2].python_count
    /\ shared_vars[1].python_count + shared_vars[1].r_count
          > shared_vars[2].python_count + shared_vars[2].r_count
    /\ IndexOf(py_results, shared_vars[1].var) # IndexOf(r_results, shared_vars[1].var)

RECURSIVE Ancestors(_)
\* The directories between node n and the top directory (the top excluded).
Ancestors(n) ==
    IF tree.parent[n] = 0 THEN {} ELSE {tree.parent[n]} \cup Ancestors(tree.parent[n])

\* Node n is, or lies under, a directory below the top that the pass skips.
UnderExcluded(language, n) ==
    \E a \in Ancestors(n) \cup (IF tree.entry[n].kind = "dir" THEN {n} ELSE {}) :
        should_skip_directory(language, tree.entry[a].name)

PassReturned(language) ==
    \/ language = "python" /\ ~(lang = "python" /\ phase \in {"start", "walk"})
    \/ language = "r" /\ lang = "r" /\ phase \notin {"start", "walk"}

\* C6: a directory below the top whose name is in the language's exclusion
\* set is never walked into, at any depth, nor is anything under it; no file
\* under it is scanned, listed or counted; renv is skipped by the R pass and
\* not by the Python pass.
C6_ExcludedDirectoriesNeverEntered ==
    LET under   == [python |-> {n \in Nodes : UnderExcluded("python", n)},
                    r      |-> {n \in Nodes : UnderExcluded("r", n)}]
        outside == SelectSeq([n \in Nodes |-> n],
                             LAMBDA n : /\ tree.entry[n].kind = "file"
                                        /\ tree.entry[n].readable
                                        /\ IsSourceFile(lang, tree.entry[n].name)
                                        /\ n \notin under[lang])
        renv    == <<"r","e","n","v">>
    IN  /\ \A language \in Languages :
              /\ Range(walked[language]) \cap under[language] = {}
              /\ Range(scanned[language]) \cap under[language] = {}
        /\ phase = "walk" =>
              /\ root \notin under[lang]
              /\ Range(stack) \cap under[lang] = {}
        /\ \A n \in under["python"] : PathOf(tree, n) \notin Range(py_files)
        /\ \A n \in under["r"] : PathOf(tree, n) \notin Range(r_files)
        /\ InPass =>
              /\ \A n \in under[lang] : PathOf(tree, n) \notin Range(processed_files)
              /\ \A v \in Identifiers \cup KeySet(counts) :
                    /\ Get(counts, v) <= SumOver(outside, TextCount(lang, v))
                    /\ phase = "returned" => Get(counts, v) = SumOver(outside, TextCount(lang, v))
        /\ \A n \in Nodes :
              (tree.entry[n].kind = "file" /\ \E a \in Ancestors(n) : tree.entry[a].name = renv)
              => /\ PathOf(tree, n) \notin Range(r_files)
                 /\ (PassReturned("python")
                       /\ tree.entry[n].readable
                       /\ IsSourceFile("python", tree.entry[n].name)
                       /\ \A a \in Ancestors(n) : tree.entry[a].name \in {renv, <<"p","k","g">>})
                    => PathOf(tree, n) \in Range(py_files)

\* A readable Python file under pkg/.git: the run is over and it was never
\* listed.
C6_Witness ==
    /\ phase = "done"
    /\ \E n \in Nodes :
          /\ tree.entry[n].kind = "file"
          /\ tree.entry[n].readable
          /\ IsSourceFile("python", tree.entry[n].name)
          /\ tree.parent[n] # 0
          /\ tree.entry[tree.parent[n]].name = <<".","g","i","t">>
          /\ tree.parent[tree.parent[n]] # 0
          /\ PathOf(tree, n) \notin Range(py_files)
          /\ walked["python"] = <<0, tree.parent[tree.parent[n]]>>

AfterCombined == phase \in {"shared", "write", "done"}

\* C7: the combined report holds every entry of the Python ranking tagged
\* "python" and every entry of the R ranking tagged "r", each once, nothing
\* merged; counts do not increase along it; entries with equal counts are in
\* the order of the Python ranking followed by the R ranking.
C7_CombinedReport ==
    AfterCombined =>
        LET concat == Tagged(py_results, "python") \o Tagged(r_results, "r")
            place(row) == CHOOSE k \in 1..Len(concat) : concat[k] = row
        IN  /\ Len(combined) = Len(py_results) + Len(r_results)
            /\ Range(combined) = Range(concat)
            /\ \A j, k \in 1..Len(combined) : j # k => combined[j] # combined[k]
            /\ \A k \in 1..(Len(combined) - 1) : combined[k].count >= combined[k + 1].count
            /\ \A j, k \in 1..Len(combined) :
                  (j < k /\ combined[j].count = combined[k].count)
                      => place(combined[j]) < place(combined[k])

\* An identifier of both languages is in the report twice, and a Python entry
\* and an R entry tie.
C7_Witness ==
    /\ AfterCombined
    /\ \E j, k \in 1..Len(combined) :
          /\ combined[j].var = combined[k].var
          /\ combined[j].language = "python"
          /\ combined[k].language = "r"
    /\ \E j, k \in 1..Len(combined) :
          /\ j < k
          /\ combined[j].count = combined[k].count
          /\ combined[j].language = "python"
          /\ combined[k].language = "r"
    /\ \E k \in 1..(Len(combined) - 1) : combined[k].count > combined[k + 1].count

=============================================================================
